---- MODULE Spec2Model ----
\* Qt Designer Object Inspector model (ObjectInspectorModel): the snapshot
\* builder (createModelRecursion), the differ (update), the rebuilder
\* (rebuild), the patcher (updateItemContents) and the editable name cell
\* (setData), over a small host object graph that the environment edits.
\* With it: the object inspector's Selection triple, the comparison of two
\* ObjectData entries on entries of any content, and qdoc's expansion of
\* "@file" command line arguments.
EXTENDS Integers, Sequences, FiniteSets, TLC

\* host                   the form's objects as the Designer core reports them
\* m_model                the stored snapshot (ObjectModel)
\* m_formWindow           the current form window, or Null
\* rows                   the QStandardItemModel rows, by QModelIndex
\* m_objectIndexMultiMap  object -> the indexes of its rows, newest first
\* commandHistory         the commands pushed on the form window's undo stack
\* steps                  host changes and pushed commands so far
\* lastCall               the last call of update or setData: arguments, result
\* log                    what that call did to the rows
\* results                the results of the update calls so far, where kept
VARIABLES host, m_model, m_formWindow, rows, m_objectIndexMultiMap,
          commandHistory, steps, lastCall, log, results

\* arguments      the argument list handed to QDocCommandLineParser::process
\* files          the content of the options file, or that it cannot be opened
\* parsed         whether process ran, how it ended and the list it parsed
\* selected       a Selection: its lists managed, unmanaged and objects
\* selectionCall  the last call on the Selection and what it returned
\* entries        two ObjectData entries, lhs and rhs
\* compareCall    the last call of equals or compare on them and its result
VARIABLES arguments, files, parsed, selected, selectionCall, entries, compareCall

inspectorVars == <<host, m_model, m_formWindow, rows, m_objectIndexMultiMap,
                   commandHistory, steps, lastCall, log, results>>
qdocVars == <<arguments, files, parsed>>
selectionVars == <<selected, selectionCall>>
compareVars == <<entries, compareCall>>

vars == <<inspectorVars, qdocVars, selectionVars, compareVars>>

\* ---------------------------------------------------------------- bounds
\* Host edits plus submitted commands in one behaviour.
MaxSteps == 2

\* Update calls in one behaviour, where their results are kept.
MaxUpdates == 3

\* ------------------------------------------------------ the host's objects
Null == "null"
Objs == {"form", "tabs", "page", "lw", "menu", "act", "mact", "bg"}
FormWindows == {"fw1", "fw2"}
Names == {"a", "b"}

\* A class name (QString) is the sequence of its parts, so that the removal
\* of the "QDesigner" prefix is computed on it and not assumed.
QWidgetCls == <<"Q", "Widget">>
QMainWindowCls == <<"Q", "MainWindow">>
QTabWidgetCls == <<"Q", "TabWidget">>
QLayoutWidgetCls == <<"Q", "LayoutWidget">>
QDesignerMenuCls == <<"Q", "Designer", "Menu">>
QActionCls == <<"Q", "Action">>
QButtonGroupCls == <<"Q", "ButtonGroup">>
QHBoxLayoutCls == <<"Q", "HBoxLayout">>
QVBoxLayoutCls == <<"Q", "VBoxLayout">>
PromotedCls == <<"My", "Page">>

\* QIcon: null or not, and its cache key.
NullIcon == [null |-> TRUE, key |-> ""]
Icon(k) == [null |-> FALSE, key |-> k]

\* An acyclic host graph: an object is only placed below an object of lower
\* rank (a QObject tree has no cycles, and a menu never holds its own action).
Rank(o) ==
    CASE o = "form" -> 1 [] o = "tabs" -> 2 [] o = "page" -> 3 [] o = "lw" -> 4
      [] o = "mact" -> 5 [] o = "menu" -> 6 [] o = "act" -> 7 [] o = "bg" -> 8

\* QObject::isWidgetType()
isWidgetType(h, o) ==
    h.metaClass[o] \in {QWidgetCls, QMainWindowCls, QTabWidgetCls,
                        QLayoutWidgetCls, QDesignerMenuCls}

\* qobject_cast<const QAction*>(o) succeeds
isAction(h, o) == h.metaClass[o] = QActionCls

\* qobject_cast<QButtonGroup*>(o) succeeds
isButtonGroup(h, o) == h.metaClass[o] = QButtonGroupCls

\* o->metaObject() == &QLayoutWidget::staticMetaObject
isQLayoutWidget(h, o) == h.metaClass[o] = QLayoutWidgetCls

NoItem == [present |-> FALSE, name |-> <<>>, icon |-> NullIcon, isContainer |-> FALSE]
DbItem(n, i, c) == [present |-> TRUE, name |-> n, icon |-> i, isContainer |-> c]

NoLayoutObject == [present |-> FALSE, kind |-> "NoLayout", objectName |-> ""]
Layout(k, n) == [present |-> TRUE, kind |-> k, objectName |-> n]

\* layout->metaObject()->className()
LayoutClassName(l) == IF l.kind = "HBox" THEN QHBoxLayoutCls ELSE QVBoxLayoutCls

\* The form of a freshly started session: a form with a tab widget holding one
\* page, a layout widget, a menu reached through its action, an action used
\* by the form and by the menu, and a button group.  mainWindow: the form is a
\* QMainWindow (it has a container extension) instead of a plain QWidget.
InitialHost(mainWindow) ==
    [ mainContainer |-> [fw \in FormWindows |-> IF fw = "fw1" THEN "form" ELSE Null],
      metaClass |-> [o \in Objs |->
          CASE o = "form" -> IF mainWindow THEN QMainWindowCls ELSE QWidgetCls
            [] o = "tabs" -> QTabWidgetCls
            [] o = "page" -> QWidgetCls
            [] o = "lw"   -> QLayoutWidgetCls
            [] o = "menu" -> QDesignerMenuCls
            [] o \in {"act", "mact"} -> QActionCls
            [] o = "bg"   -> QButtonGroupCls],
      extension |-> IF mainWindow THEN {"form", "tabs"} ELSE {"tabs"},
      children |-> [o \in Objs |->
          CASE o = "form" -> <<"tabs", "lw", "menu", "act", "mact", "bg">>
            [] o = "tabs" -> <<"page">>
            [] OTHER -> <<>>],
      pages |-> [o \in Objs |->
          CASE o = "form" -> IF mainWindow THEN <<"tabs">> ELSE <<>>
            [] o = "tabs" -> <<"page">>
            [] OTHER -> <<>>],
      actions |-> [o \in Objs |->
          CASE o = "form" -> <<"mact", "act">>
            [] o = "menu" -> <<"act">>
            [] OTHER -> <<>>],
      menu |-> [o \in Objs |-> IF o = "mact" THEN "menu" ELSE Null],
      managed |-> {"tabs", "page", "lw"},
      meta |-> {"act", "mact", "bg"},
      separator |-> {},
      objectName |-> [o \in Objs |-> "a"],
      icon |-> [o \in Objs |-> IF o = "act" THEN Icon("act.png") ELSE NullIcon],
      layout |-> [o \in Objs |-> IF o = "lw" THEN Layout("HBox", "a") ELSE NoLayoutObject],
      managedLayout |-> [o \in Objs |-> "NoLayout"],
      dbItem |-> [o \in Objs |->
          CASE o = "form" -> DbItem(IF mainWindow THEN QMainWindowCls ELSE QWidgetCls,
                                    Icon("widget.png"), TRUE)
            [] o = "tabs" -> DbItem(QTabWidgetCls, Icon("tabwidget.png"), TRUE)
            [] o = "page" -> DbItem(QWidgetCls, Icon("widget.png"), TRUE)
            [] o = "lw"   -> DbItem(QLayoutWidgetCls, NullIcon, FALSE)
            [] OTHER -> NoItem] ]

\* ------------------------------------------------------------- ObjectData
designerPrefix == <<"Q", "Designer">>
separatorName == "separator"

\* QString::startsWith
startsWith(s, p) == Len(s) >= Len(p) /\ SubSeq(s, 1, Len(p)) = p

\* QString::remove(position, n), position counted from 0, in parts
remove(s, position, n) ==
    IF position >= Len(s) THEN s
    ELSE SubSeq(s, 1, position) \o SubSeq(s, position + n + 1, Len(s))

\* The members' initial values before initWidget/initObject assign them.
DefaultType == "Object"
DefaultLayoutType == "NoLayout"

initObject(h, e) ==
    IF isAction(h, e.object)
    THEN IF e.object \in h.separator
         THEN [e EXCEPT !.objectName = separatorName, !.type = "SeparatorAction",
                        !.classIcon = h.icon[e.object]]
         ELSE [e EXCEPT !.type = "Action", !.classIcon = h.icon[e.object]]
    ELSE [e EXCEPT !.type = "Object"]

initWidget(h, e) ==
    LET w == e.object
        widgetItem == h.dbItem[w]
        e1 == IF widgetItem.present
              THEN [e EXCEPT !.classIcon = widgetItem.icon, !.className = widgetItem.name]
              ELSE e
        isContainer == widgetItem.present /\ widgetItem.isContainer
    IN  IF isQLayoutWidget(h, w)
        THEN IF h.layout[w].present
             THEN [e1 EXCEPT !.type = "LayoutWidget",
                             !.managedLayoutType = h.layout[w].kind,
                             !.className = LayoutClassName(h.layout[w]),
                             !.objectName = h.layout[w].objectName]
             ELSE e1
        ELSE IF w \in h.extension
        THEN [e1 EXCEPT !.type = "ExtensionContainer"]
        ELSE IF isContainer
        THEN [e1 EXCEPT !.type = "LayoutableContainer",
                        !.managedLayoutType = h.managedLayout[w]]
        ELSE [e1 EXCEPT !.type = "ChildWidget"]

ObjectData(h, parent, object) ==
    LET e0 == [parent |-> parent, object |-> object,
               className |-> h.metaClass[object],
               objectName |-> h.objectName[object],
               classIcon |-> NullIcon,
               type |-> DefaultType,
               managedLayoutType |-> DefaultLayoutType]
        e1 == IF isWidgetType(h, object) THEN initWidget(h, e0) ELSE initObject(h, e0)
    IN  IF startsWith(e1.className, designerPrefix)
        THEN [e1 EXCEPT !.className = remove(e1.className, 1, Len(designerPrefix) - 1)]
        ELSE e1

equals(a, b) == a.parent = b.parent /\ a.object = b.object

sameIcon(i1, i2) ==
    IF i1.null /\ i2.null THEN TRUE
    ELSE IF i1.null # i2.null THEN FALSE
    ELSE i1.key = i2.key

\* Mutant: the type tag is not compared.
compareWithoutType(a, rhs) ==
    (IF a.className # rhs.className THEN {"ClassNameChanged"} ELSE {})
    \cup (IF a.objectName # rhs.objectName THEN {"ObjectNameChanged"} ELSE {})
    \cup (IF ~sameIcon(a.classIcon, rhs.classIcon) THEN {"ClassIconChanged"} ELSE {})
    \cup (IF a.managedLayoutType # rhs.managedLayoutType THEN {"LayoutTypeChanged"} ELSE {})

\* The change mask, as the set of its flags.
compare(a, rhs) ==
    (IF a.className # rhs.className THEN {"ClassNameChanged"} ELSE {})
    \cup (IF a.objectName # rhs.objectName THEN {"ObjectNameChanged"} ELSE {})
    \cup (IF ~sameIcon(a.classIcon, rhs.classIcon) THEN {"ClassIconChanged"} ELSE {})
    \cup (IF a.type # rhs.type THEN {"TypeChanged"} ELSE {})
    \cup (IF a.managedLayoutType # rhs.managedLayoutType THEN {"LayoutTypeChanged"} ELSE {})

AllChanged == {"ClassNameChanged", "ObjectNameChanged", "ClassIconChanged",
               "TypeChanged", "LayoutTypeChanged"}

\* ------------------------------------------------------ snapshot builder
\* containerExtension->widget(0 .. count-1) of an extension container
extensionPages(h, entry) ==
    IF entry.type = "ExtensionContainer" THEN h.pages[entry.object] ELSE <<>>

\* Mutant: the container extension is not looked at.
managedChildWidgetsIgnoringExtension(h, entry) ==
    SelectSeq(h.children[entry.object],
              LAMBDA c : isWidgetType(h, c) /\ c \in h.managed)

\* Mutant: isManaged is not asked.
managedChildWidgetsUnmanagedToo(h, entry) ==
    LET containerExtension == entry.type = "ExtensionContainer"
    IN  SelectSeq(h.children[entry.object],
                  LAMBDA c : isWidgetType(h, c) /\ ~containerExtension)

\* The widget children recursed into: managed ones, unless the node had a
\* container extension.
managedChildWidgets(h, entry) ==
    LET containerExtension == entry.type = "ExtensionContainer"
    IN  SelectSeq(h.children[entry.object],
                  LAMBDA c : isWidgetType(h, c) /\ ~containerExtension /\ c \in h.managed)

\* The non-widget children collected in buttonGroups.
buttonGroups(h, entry) ==
    SelectSeq(h.children[entry.object],
              LAMBDA c : ~isWidgetType(h, c) /\ c \in h.meta /\ isButtonGroup(h, c))

\* The objects recursed into for the widget's actions: an action with a
\* MetaDataBase entry, or its menu when it has one.
actionObjects(h, entry) ==
    IF isWidgetType(h, entry.object)
    THEN LET withItem == SelectSeq(h.actions[entry.object], LAMBDA a : a \in h.meta)
         IN  [i \in 1..Len(withItem) |->
                 IF h.menu[withItem[i]] # Null THEN h.menu[withItem[i]] ELSE withItem[i]]
    ELSE <<>>

\* Mutant: the button groups are recursed into where the child list has them.
childObjectsGroupsFirst(h, entry) ==
    extensionPages(h, entry) \o buttonGroups(h, entry)
        \o managedChildWidgets(h, entry) \o actionObjects(h, entry)

\* The objects createModelRecursion recurses into below an entry, in order.
childObjects(h, entry) ==
    extensionPages(h, entry) \o managedChildWidgets(h, entry)
        \o buttonGroups(h, entry) \o actionObjects(h, entry)

RECURSIVE createModelRecursion(_, _, _)
RECURSIVE recurseOver(_, _, _)
recurseOver(h, object, objs) ==
    IF objs = <<>> THEN <<>>
    ELSE createModelRecursion(h, object, Head(objs)) \o recurseOver(h, object, Tail(objs))

\* Mutant: the recursion hands down its own parent instead of the object.
createModelRecursionOwnParent(h, parent, object) ==
    LET entry == ObjectData(h, parent, object)
    IN  <<entry>> \o recurseOver(h, parent, childObjects(h, entry))

createModelRecursion(h, parent, object) ==
    LET entry == ObjectData(h, parent, object)
    IN  <<entry>> \o recurseOver(h, object, childObjects(h, entry))

\* Mutant: the entries are compared with all their attributes.
modelEqualsByValue(m1, m2) ==
    /\ Len(m1) = Len(m2)
    /\ \A i \in 1..Len(m1) : m1[i] = m2[i]

\* operator== of two ObjectModel lists: same size, equals() at every position
modelEquals(m1, m2) ==
    /\ Len(m1) = Len(m2)
    /\ \A i \in 1..Len(m1) : equals(m1[i], m2[i])

\* ---------------------------------------------------- presentation rows
\* A QModelIndex is the path of row numbers from the top level; <<>> is the
\* invalid index.  rows maps the index of every row to its two items.
InvalidIndex == <<>>

layoutIcons(t) ==
    CASE t = "NoLayout"  -> Icon("editbreaklayout.png")
      [] t = "HSplitter" -> Icon("edithlayoutsplit.png")
      [] t = "VSplitter" -> Icon("editvlayoutsplit.png")
      [] t = "HBox"      -> Icon("edithlayout.png")
      [] t = "VBox"      -> Icon("editvlayout.png")
      [] t = "Grid"      -> Icon("editgrid.png")
      [] t = "Form"      -> Icon("editform.png")

createModelRow(o) ==
    [object |-> Null, nameText |-> "", nameIcon |-> NullIcon, nameEditable |-> TRUE,
     classText |-> <<>>, classToolTip |-> <<>>, classIcon |-> NullIcon]

\* Mutant: every cell is written, whatever the mask.
displayDataWritesAll(e, mask) ==
    ("nameText" :> e.objectName)
    @@ ("classText" :> e.className) @@ ("classToolTip" :> e.className)
    @@ (CASE e.type = "LayoutWidget" ->
                ("nameIcon" :> layoutIcons(e.managedLayoutType))
                @@ ("classIcon" :> layoutIcons(e.managedLayoutType))
          [] e.type = "LayoutableContainer" ->
                ("nameIcon" :> layoutIcons(e.managedLayoutType))
                @@ ("classIcon" :> e.classIcon)
          [] OTHER ->
                ("nameIcon" :> NullIcon) @@ ("classIcon" :> e.classIcon))

\* The setText, setToolTip and setIcon calls of setItemsDisplayData(row, icons,
\* mask) on entry e: the cells written, with the value each is given.
displayDataWrites(e, mask) ==
    (IF "ObjectNameChanged" \in mask THEN "nameText" :> e.objectName ELSE <<>>)
    @@ (IF "ClassNameChanged" \in mask
        THEN ("classText" :> e.className) @@ ("classToolTip" :> e.className)
        ELSE <<>>)
    @@ (IF mask \cap {"ClassIconChanged", "TypeChanged", "LayoutTypeChanged"} # {}
        THEN CASE e.type = "LayoutWidget" ->
                    ("nameIcon" :> layoutIcons(e.managedLayoutType))
                    @@ ("classIcon" :> layoutIcons(e.managedLayoutType))
               [] e.type = "LayoutableContainer" ->
                    ("nameIcon" :> layoutIcons(e.managedLayoutType))
                    @@ ("classIcon" :> e.classIcon)
               [] OTHER ->
                    ("nameIcon" :> NullIcon) @@ ("classIcon" :> e.classIcon)
        ELSE <<>>)

\* The row after those calls.
setItemsDisplayData(row, e, mask) ==
    LET writes == displayDataWrites(e, mask)
        cell(c) == IF c \in DOMAIN writes THEN writes[c] ELSE row[c]
    IN  [row EXCEPT !.nameText = cell("nameText"),
                    !.classText = cell("classText"),
                    !.classToolTip = cell("classToolTip"),
                    !.nameIcon = cell("nameIcon"),
                    !.classIcon = cell("classIcon")]

setItems(row, e) ==
    setItemsDisplayData([row EXCEPT !.object = e.object], e, AllChanged)

\* The rows directly below parentIndex (the top-level rows for <<>>).
childRows(rws, parentIndex) ==
    {p \in DOMAIN rws : Len(p) = Len(parentIndex) + 1
                        /\ SubSeq(p, 1, Len(parentIndex)) = parentIndex}

\* appendRow on the model (parentIndex = <<>>) or on a parent item: the index
\* of the new row.
appendedIndex(rws, parentIndex) ==
    Append(parentIndex, Cardinality(childRows(rws, parentIndex)))

\* QStandardItemModel::removeRow(0): the first top-level row goes with all rows
\* below it, the later top-level rows move up.
removeRow0(rws) ==
    LET kept == {p \in DOMAIN rws : p[1] # 0}
        up(p) == [p EXCEPT ![1] = p[1] - 1]
        down(q) == [q EXCEPT ![1] = q[1] + 1]
    IN  [q \in {up(p) : p \in kept} |-> rws[down(q)]]

EmptyIndexMap == [o \in Objs |-> <<>>]

\* Mutant: QMap::insert, which replaces the value of the key.
mapInsertReplacing(map, o, index) == [map EXCEPT ![o] = <<index>>]

\* QMultiMap::insert: the newest value of a key comes first in values(key).
mapInsert(map, o, index) == [map EXCEPT ![o] = <<index>> \o @]

\* Mutant: the oldest value of the key is returned.
mapValueOldest(map, o) ==
    IF o \in Objs /\ map[o] # <<>> THEN map[o][Len(map[o])] ELSE InvalidIndex

\* QMultiMap::value(key, QModelIndex())
mapValue(map, o) == IF o \in Objs /\ map[o] # <<>> THEN Head(map[o]) ELSE InvalidIndex

\* QMultiMap::values(key)
mapValues(map, o) == map[o]

EmptyLog == [created |-> <<>>, removed |-> 0, patched |-> <<>>, assertFailed |-> FALSE]

\* Mutant: removeRow(0) is left out.
clearItemsKeepingRows(rws) ==
    [m_model |-> <<>>, rows |-> rws, map |-> EmptyIndexMap]

\* clearItems(): the state [m_model, rows, map] after it.
clearItems(rws) ==
    [m_model |-> <<>>, rows |-> removeRow0(rws), map |-> EmptyIndexMap]

\* rebuild(): the loop over the entries after the root, from position i.
RECURSIVE rebuildRows(_, _, _)
rebuildRows(st, newModel, i) ==
    IF i > Len(newModel) \/ st.assertFailed THEN st
    ELSE LET it == newModel[i]
             parentIndex == IF i = 1 THEN InvalidIndex ELSE mapValue(st.map, it.parent)
         IN  IF i > 1 /\ parentIndex = InvalidIndex
             THEN [st EXCEPT !.assertFailed = TRUE]   \* Q_ASSERT(parentIndex.isValid())
             ELSE LET index == appendedIndex(st.rows, parentIndex)
                      row == setItems(createModelRow(it.object), it)
                  IN  rebuildRows([st EXCEPT !.rows = (index :> row) @@ st.rows,
                                             !.map = mapInsert(st.map, it.object, index),
                                             !.created = Append(st.created, index)],
                                  newModel, i + 1)

\* rebuild(newModel): [m_model, rows, map, created, assertFailed] after it.
rebuild(rws, newModel) ==
    LET c == clearItems(rws)
    IN  rebuildRows([m_model |-> c.m_model, rows |-> c.rows, map |-> c.map,
                     created |-> <<>>, assertFailed |-> FALSE], newModel, 1)

\* Mutant: the set of changed objects is not consulted.
alreadyChangedIgnored(changedObjects, o) == FALSE

\* changedObjects.contains(o)
alreadyChanged(changedObjects, o) == o \in changedObjects

\* Mutant: only the first of the object's rows is patched.
patchRowsFirstOnly(st, indexes, entry, changedMask) ==
    IF indexes = <<>> THEN st
    ELSE [st EXCEPT
            !.rows = [@ EXCEPT ![Head(indexes)] =
                         setItemsDisplayData(@, entry, changedMask)],
            !.patched = Append(@, [index |-> Head(indexes), object |-> entry.object,
                                   mask |-> changedMask,
                                   written |-> DOMAIN displayDataWrites(
                                                   entry, changedMask)])]

\* for (index : indexes) entry.setItemsDisplayData(rowAt(index), m_icons, changedMask)
RECURSIVE patchRows(_, _, _, _)
patchRows(st, indexes, entry, changedMask) ==
    IF indexes = <<>> THEN st
    ELSE LET index == Head(indexes)
         IN  patchRows([st EXCEPT
                          !.rows = [@ EXCEPT ![index] =
                                       setItemsDisplayData(@, entry, changedMask)],
                          !.patched = Append(@, [index |-> index, object |-> entry.object,
                                                 mask |-> changedMask,
                                                 written |-> DOMAIN displayDataWrites(
                                                                 entry, changedMask)])],
                       Tail(indexes), entry, changedMask)

\* updateItemContents(): the loop from position i;
\* st = [m_model, rows, changedObjects, patched].
RECURSIVE updateItemContents(_, _, _, _)
updateItemContents(st, newModel, map, i) ==
    IF i > Len(newModel) THEN st
    ELSE LET newEntry == newModel[i]
             changedMask == compare(st.m_model[i], newEntry)
         IN  IF changedMask = {} THEN updateItemContents(st, newModel, map, i + 1)
             ELSE LET st1 == [st EXCEPT !.m_model[i] = newEntry]
                      o == newEntry.object
                  IN  IF alreadyChanged(st.changedObjects, o)
                      THEN updateItemContents(st1, newModel, map, i + 1)
                      ELSE updateItemContents(
                               patchRows([st1 EXCEPT !.changedObjects = @ \cup {o}],
                                         mapValues(map, o), newEntry, changedMask),
                               newModel, map, i + 1)

\* Mutant: m_model = newModel is left out.
updateRebuildWithoutStore(rws, newModel) == rebuild(rws, newModel)

\* update(fw), rebuild branch: rebuild(newModel); m_model = newModel
updateRebuild(rws, newModel) == [rebuild(rws, newModel) EXCEPT !.m_model = newModel]

\* Mutant: without main container the stored snapshot is not cleared.
updateKeepingSnapshot(h, c, fw) ==
    LET mainContainer == IF fw # Null THEN h.mainContainer[fw] ELSE Null
        newModel == createModelRecursion(h, Null, mainContainer)
        u == updateItemContents([m_model |-> c.m_model, rows |-> c.rows,
                                 changedObjects |-> {}, patched |-> <<>>],
                                newModel, c.map, 1)
        r == updateRebuild(c.rows, newModel)
    IN  IF mainContainer = Null
        THEN [m_model |-> c.m_model, m_formWindow |-> Null, rows |-> removeRow0(c.rows),
              map |-> EmptyIndexMap, ret |-> "NoForm", log |-> EmptyLog]
        ELSE IF modelEquals(newModel, c.m_model)
        THEN [m_model |-> u.m_model, m_formWindow |-> fw, rows |-> u.rows,
              map |-> c.map, ret |-> "Updated",
              log |-> [EmptyLog EXCEPT !.patched = u.patched]]
        ELSE [m_model |-> r.m_model, m_formWindow |-> fw, rows |-> r.rows,
              map |-> r.map, ret |-> "Rebuilt",
              log |-> [EmptyLog EXCEPT !.created = r.created]]

\* update(fw) on the component state c = [m_model, m_formWindow, rows, map]:
\* the state after it, with the result and what was done to the rows.
update(h, c, fw) ==
    LET mainContainer == IF fw # Null THEN h.mainContainer[fw] ELSE Null
    IN  IF mainContainer = Null
        THEN LET cl == clearItems(c.rows)
             IN  [m_model |-> cl.m_model, m_formWindow |-> Null, rows |-> cl.rows,
                  map |-> cl.map, ret |-> "NoForm",
                  log |-> [EmptyLog EXCEPT !.removed =
                             Cardinality(DOMAIN c.rows) - Cardinality(DOMAIN cl.rows)]]
        ELSE LET newModel == createModelRecursion(h, Null, mainContainer)
             IN  IF modelEquals(newModel, c.m_model)
                 THEN LET u == updateItemContents(
                                  [m_model |-> c.m_model, rows |-> c.rows,
                                   changedObjects |-> {}, patched |-> <<>>],
                                  newModel, c.map, 1)
                      IN  [m_model |-> u.m_model, m_formWindow |-> fw, rows |-> u.rows,
                           map |-> c.map, ret |-> "Updated",
                           log |-> [EmptyLog EXCEPT !.patched = u.patched]]
                 ELSE LET r == updateRebuild(c.rows, newModel)
                      IN  [m_model |-> r.m_model, m_formWindow |-> fw, rows |-> r.rows,
                           map |-> r.map, ret |-> "Rebuilt",
                           log |-> [created |-> r.created,
                                    removed |-> Cardinality(DOMAIN c.rows) + Len(r.created)
                                                  - Cardinality(DOMAIN r.rows),
                                    patched |-> <<>>,
                                    assertFailed |-> r.assertFailed]]

\* objectAt(index)
objectAt(rws, index) ==
    IF index # InvalidIndex /\ index \in DOMAIN rws THEN rws[index].object ELSE Null

\* Mutant: the role is not checked.
setDataAnyRole(h, formWindow, rws, index, value, role) ==
    IF formWindow = Null
    THEN [ret |-> "false", pushed |-> <<>>]
    ELSE LET object == objectAt(rws, index)
         IN  IF object = Null
             THEN [ret |-> "false", pushed |-> <<>>]
             ELSE LET nameProperty == IF isQLayoutWidget(h, object)
                                      THEN "layoutName" ELSE "objectName"
                  IN  [ret |-> "true",
                       pushed |-> <<[property |-> nameProperty, value |-> value,
                                     object |-> object, formWindow |-> formWindow]>>]

\* setData(index, value, role): the result and the commands pushed.
setData(h, formWindow, rws, index, value, role) ==
    IF role # "EditRole" \/ formWindow = Null
    THEN [ret |-> "false", pushed |-> <<>>]
    ELSE LET object == objectAt(rws, index)
         IN  IF object = Null
             THEN [ret |-> "false", pushed |-> <<>>]
             ELSE LET nameProperty == IF isQLayoutWidget(h, object)
                                      THEN "layoutName" ELSE "objectName"
                  IN  [ret |-> "true",
                       pushed |-> <<[property |-> nameProperty, value |-> value,
                                     object |-> object, formWindow |-> formWindow]>>]

\* ------------------------------------------------------------ the state
NoCall == [op |-> "host", fw |-> Null, role |-> "", index |-> InvalidIndex,
           value |-> "", ret |-> ""]

\* The other components before anything is done with them.
NotParsed == [status |-> "none", allArguments |-> <<>>]
NoFiles == [present |-> FALSE, content |-> <<>>]
QDocIdle == arguments = <<>> /\ files = NoFiles /\ parsed = NotParsed

EmptySelection == [managed |-> <<>>, unmanaged |-> <<>>, objects |-> <<>>]
NoSelectionCall == [op |-> "", empty |-> FALSE, selection |-> <<>>]
SelectionIdle == selected = EmptySelection /\ selectionCall = NoSelectionCall

NoCompareCall == [op |-> "", equals |-> FALSE, mask |-> {}]
CompareIdle == entries = <<>> /\ compareCall = NoCompareCall

\* The inspector before its first update, over the plain form.
InspectorIdle ==
    /\ host = InitialHost(FALSE)
    /\ m_model = <<>>
    /\ m_formWindow = Null
    /\ rows = <<>>
    /\ m_objectIndexMultiMap = [o \in Objs |-> <<>>]
    /\ commandHistory = <<>>
    /\ steps = 0
    /\ lastCall = NoCall
    /\ log = EmptyLog
    /\ results = <<>>

Init ==
    /\ QDocIdle /\ SelectionIdle /\ CompareIdle
    /\ host \in {InitialHost(mainWindow) : mainWindow \in BOOLEAN}
    /\ m_model = <<>>
    /\ m_formWindow = Null
    /\ rows = <<>>
    /\ m_objectIndexMultiMap = EmptyIndexMap
    /\ commandHistory = <<>>
    /\ steps = 0
    /\ lastCall = NoCall
    /\ log = EmptyLog
    /\ results = <<>>

\* ------------------------------------------------- the component's calls
Update(fw) ==
    LET r == update(host, [m_model |-> m_model, m_formWindow |-> m_formWindow,
                           rows |-> rows, map |-> m_objectIndexMultiMap], fw)
    IN  /\ m_model' = r.m_model
        /\ m_formWindow' = r.m_formWindow
        /\ rows' = r.rows
        /\ m_objectIndexMultiMap' = r.map
        /\ log' = r.log
        /\ lastCall' = [op |-> "update", fw |-> fw, role |-> "",
                        index |-> InvalidIndex, value |-> "", ret |-> r.ret]
        /\ UNCHANGED <<host, commandHistory, steps>>
        /\ UNCHANGED <<qdocVars, selectionVars, compareVars>>

Roles == {"EditRole", "DisplayRole"}

SetData(index, value, role) ==
    LET r == setData(host, m_formWindow, rows, index, value, role)
    IN  /\ r.pushed # <<>> => steps < MaxSteps
        /\ commandHistory' = commandHistory \o r.pushed
        /\ steps' = steps + Len(r.pushed)
        /\ log' = EmptyLog
        /\ lastCall' = [op |-> "setData", fw |-> Null, role |-> role,
                        index |-> index, value |-> value, ret |-> r.ret]
        /\ UNCHANGED <<host, m_model, m_formWindow, rows, m_objectIndexMultiMap, results>>
        /\ UNCHANGED <<qdocVars, selectionVars, compareVars>>

\* ------------------------------------------------ the host's own changes
Edit(h) ==
    /\ steps < MaxSteps
    /\ h # host
    /\ host' = h
    /\ steps' = steps + 1
    /\ lastCall' = NoCall
    /\ log' = EmptyLog
    /\ UNCHANGED <<m_model, m_formWindow, rows, m_objectIndexMultiMap, commandHistory,
                   results>>
    /\ UNCHANGED <<qdocVars, selectionVars, compareVars>>

Widgets == {o \in Objs : isWidgetType(host, o)}
Root == "form"

without(seq, c) == SelectSeq(seq, LAMBDA x : x # c)
contains(seq, c) == \E i \in 1..Len(seq) : seq[i] = c

\* QObject::setObjectName
SetObjectName(o, n) == Edit([host EXCEPT !.objectName[o] = n])

\* A layout is set on, changed on or taken from a QLayoutWidget.
SetLayout(w, l) ==
    /\ isQLayoutWidget(host, w)
    /\ Edit([host EXCEPT !.layout[w] = l])

\* The layout managed by a container changes.
SetManagedLayout(w, t) ==
    /\ host.dbItem[w].present /\ host.dbItem[w].isContainer
    /\ Edit([host EXCEPT !.managedLayout[w] = t])

\* QDesignerFormWindowInterface::manageWidget / unmanageWidget
SetManaged(w) ==
    /\ w \in Widgets \ {Root}
    /\ Edit([host EXCEPT !.managed = IF w \in @ THEN @ \ {w} ELSE @ \cup {w}])

\* QDesignerMetaDataBaseInterface::add / remove
SetMeta(o) ==
    /\ o \in Objs \ Widgets
    /\ Edit([host EXCEPT !.meta = IF o \in @ THEN @ \ {o} ELSE @ \cup {o}])

\* QObject::setParent: the child leaves its parent's list and is appended to
\* the new parent's.
SetParent(c, p) ==
    /\ c # Root
    /\ p = Null \/ (p \in Widgets /\ Rank(p) < Rank(c) /\ ~contains(host.children[p], c))
    /\ Edit([host EXCEPT !.children =
                [o \in Objs |-> IF o = p THEN Append(without(@[o], c), c)
                                ELSE without(@[o], c)]])

\* The object an action stands for in the tree: its menu, if it has one.
shownFor(a) == IF host.menu[a] # Null THEN host.menu[a] ELSE a

\* QWidget::addAction (an action already in the list is not added again)
AddAction(w, a) ==
    /\ w \in Widgets /\ isAction(host, a)
    /\ Rank(w) < Rank(shownFor(a))
    /\ ~contains(host.actions[w], a)
    /\ Edit([host EXCEPT !.actions[w] = Append(@, a)])

\* QWidget::removeAction
RemoveAction(w, a) ==
    /\ contains(host.actions[w], a)
    /\ Edit([host EXCEPT !.actions[w] = without(@, a)])

\* QDesignerContainerExtension::addWidget / remove
AddPage(c, w) ==
    /\ c \in host.extension /\ w \in Widgets
    /\ Rank(c) < Rank(w)
    /\ ~contains(host.pages[c], w)
    /\ Edit([host EXCEPT !.pages[c] = Append(@, w)])

RemovePage(c, w) ==
    /\ contains(host.pages[c], w)
    /\ Edit([host EXCEPT !.pages[c] = without(@, w)])

\* QAction::setSeparator
SetSeparator(a) ==
    /\ isAction(host, a)
    /\ Edit([host EXCEPT !.separator = IF a \in @ THEN @ \ {a} ELSE @ \cup {a}])

\* QAction::setIcon
SetIcon(a, i) ==
    /\ isAction(host, a)
    /\ Edit([host EXCEPT !.icon[a] = i])

\* Promotion: the widget database names another class for the widget.
Promote(w, n) ==
    /\ host.dbItem[w].present
    /\ Edit([host EXCEPT !.dbItem[w].name = n])

\* The objects and values the host's changes are drawn from.
Layouts == {NoLayoutObject, Layout("HBox", "a"), Layout("VBox", "a")}
ActionIcons == {NullIcon, Icon("act.png"), Icon("act2.png")}

UpdateStep == \E fw \in FormWindows \cup {Null} : Update(fw) /\ UNCHANGED results
UpdateRecordedStep ==
    \E fw \in FormWindows \cup {Null} :
        /\ Len(results) < MaxUpdates
        /\ Update(fw)
        /\ results' = Append(results, lastCall'.ret)
SetDataStep ==
    \E index \in DOMAIN rows \cup {InvalidIndex}, value \in {"b"}, role \in Roles :
        SetData(index, value, role)
SetObjectNameStep == \E o \in {"form", "lw", "act"}, n \in Names : SetObjectName(o, n)
SetLayoutStep == \E l \in Layouts : SetLayout("lw", l)
SetManagedLayoutStep == \E t \in {"NoLayout", "Grid"} : SetManagedLayout("page", t)
SetManagedStep == \E w \in {"lw", "menu"} : SetManaged(w)
SetMetaStep == \E o \in {"act", "bg"} : SetMeta(o)
SetParentStep == \E c \in {"lw", "bg"}, p \in {Null, "page"} : SetParent(c, p)
AddActionStep == \E w \in {"form", "menu"}, a \in {"act", "mact"} : AddAction(w, a)
RemoveActionStep == \E w \in {"form", "menu"}, a \in {"act", "mact"} : RemoveAction(w, a)
AddPageStep == \E c \in {"form", "tabs"}, w \in {"page", "lw"} : AddPage(c, w)
RemovePageStep == \E c \in {"form", "tabs"}, w \in {"page", "lw"} : RemovePage(c, w)
SetSeparatorStep == SetSeparator("act")
SetIconStep == \E i \in ActionIcons : SetIcon("act", i)
PromoteStep == \E n \in {QWidgetCls, PromotedCls} : Promote("page", n)

\* The object inspector following a form that the host edits.  setData is
\* left to RenameSpec: it changes none of the variables update reads.
Next ==
    \/ UpdateStep
    \/ SetObjectNameStep
    \/ SetLayoutStep
    \/ SetManagedLayoutStep
    \/ SetManagedStep
    \/ SetMetaStep
    \/ SetParentStep
    \/ AddActionStep
    \/ RemoveActionStep
    \/ AddPageStep
    \/ RemovePageStep
    \/ SetSeparatorStep
    \/ SetIconStep
    \/ PromoteStep

Spec == Init /\ [][Next]_vars

\* Rename requests on the rows, between updates and the host changes that
\* decide which property a rename targets and which rows exist.
NextRename ==
    \/ UpdateStep
    \/ SetDataStep
    \/ SetLayoutStep
    \/ SetParentStep

RenameSpec == Init /\ [][NextRename]_vars

\* A session of update calls, on forms, on no form and on a form without
\* main container, between changes of the form's structure, with the results
\* kept in order.
NextSession ==
    \/ UpdateRecordedStep
    \/ SetParentStep

SessionSpec == Init /\ [][NextSession]_vars

\* ------------------------------------------ qdoc: QDocCommandLineParser
\* A QString and a file's bytes are the sequence of their characters.
MaxArgs == 2
MaxFileSize == 3

\* All sequences over S of length 0..n.
SeqsUpTo(S, n) == UNION {[1..k -> S] : k \in 0..n}

\* The characters QByteArray::trimmed() strips, of those a file here holds.
Whitespace == {" ", "\n"}

\* The one options file of the directory.
OptionsFileName == <<"f">>

\* QFile::open(ReadOnly | Text) of the file named optionsFile succeeds
canOpen(fs, optionsFile) == fs.present /\ optionsFile = OptionsFileName

RECURSIVE trimmedStart(_)
trimmedStart(s) ==
    IF s # <<>> /\ Head(s) \in Whitespace THEN trimmedStart(Tail(s)) ELSE s

RECURSIVE trimmedEnd(_)
trimmedEnd(s) ==
    IF s # <<>> /\ s[Len(s)] \in Whitespace
    THEN trimmedEnd(SubSeq(s, 1, Len(s) - 1)) ELSE s

\* QByteArray::trimmed()
trimmed(s) == trimmedEnd(trimmedStart(s))

\* QIODevice::readLine() at position pos (bytes read so far): the bytes up to
\* and with the next newline, or up to the end, and the position after them.
readLine(content, pos) ==
    LET newlines == {i \in (pos + 1)..Len(content) : content[i] = "\n"}
        last == IF newlines = {} THEN Len(content)
                ELSE CHOOSE i \in newlines : \A j \in newlines : i <= j
    IN  [line |-> SubSeq(content, pos + 1, last), pos |-> last]

\* Mutant: the empty lines are kept.
readOptionsKeepingEmpty(content, pos) ==
    LET RECURSIVE loop(_)
        loop(at) ==
            IF at >= Len(content) THEN <<>>
            ELSE LET r == readLine(content, at)
                 IN  <<trimmed(r.line)>> \o loop(r.pos)
    IN  loop(pos)

\* while (!f.atEnd()) { line = readLine().trimmed(); if (!line.isEmpty()) ... }
\* from position pos: the lines appended to allArguments.
RECURSIVE readOptions(_, _)
readOptions(content, pos) ==
    IF pos >= Len(content) THEN <<>>
    ELSE LET r == readLine(content, pos)
             line == trimmed(r.line)
         IN  (IF line # <<>> THEN <<line>> ELSE <<>>) \o readOptions(content, r.pos)

\* qFatal(): the process aborts, no list is returned.
Fatal == [status |-> "fatal", allArguments |-> <<>>]

\* argumentsFromCommandLineAndFile(arguments): the loop from argument i on,
\* with the list built so far.
RECURSIVE argumentsFromCommandLineAndFile(_, _, _, _)
argumentsFromCommandLineAndFile(args, fs, i, allArguments) ==
    IF i > Len(args) THEN [status |-> "ok", allArguments |-> allArguments]
    ELSE LET argument == args[i]
         IN  IF startsWith(argument, <<"@">>)
             THEN LET optionsFile == remove(argument, 0, 1)
                  IN  IF optionsFile = <<>> THEN Fatal
                      ELSE IF ~canOpen(fs, optionsFile) THEN Fatal
                      ELSE argumentsFromCommandLineAndFile(
                               args, fs, i + 1,
                               allArguments \o readOptions(fs.content, 0))
             ELSE argumentsFromCommandLineAndFile(
                      args, fs, i + 1, Append(allArguments, argument))

\* QDocCommandLineParser::process(arguments): what QCommandLineParser::process
\* is handed, unless the expansion aborted.
process(args, fs) == argumentsFromCommandLineAndFile(args, fs, 1, <<>>)

\* The arguments and the file contents a run is started with.
ArgumentValues == {<<"x">>, <<" ", "@">>, <<"@">>, <<"@", "f">>, <<"@", "g">>}
FileCharacters == {"x", " ", "@", "\n"}

QDocInit ==
    /\ InspectorIdle /\ SelectionIdle /\ CompareIdle
    /\ arguments \in SeqsUpTo(ArgumentValues, MaxArgs)
    /\ files \in {NoFiles} \cup {[present |-> TRUE, content |-> c] :
                                   c \in SeqsUpTo(FileCharacters, MaxFileSize)}
    /\ parsed = NotParsed

Process ==
    /\ parsed.status = "none"
    /\ parsed' = process(arguments, files)
    /\ UNCHANGED <<arguments, files, inspectorVars, selectionVars, compareVars>>

QDocNext == Process

QDocSpec == QDocInit /\ [][QDocNext]_vars

\* --------------------------------- ObjectData::equals and compare alone
\* Two entries of any content: every combination of parent, object and the
\* five attributes, not only those one form produces.
EntryValues ==
    [parent : {Null, "form"}, object : {"lw", "act"},
     className : {QWidgetCls, PromotedCls}, objectName : Names,
     classIcon : ActionIcons, type : {"ChildWidget", "LayoutableContainer"},
     managedLayoutType : {"NoLayout", "Grid"}]

CompareInit ==
    /\ InspectorIdle /\ QDocIdle /\ SelectionIdle
    /\ entries \in EntryValues \X EntryValues
    /\ compareCall = NoCompareCall

\* entries[1].equals(entries[2])
Equals ==
    /\ compareCall.op = ""
    /\ compareCall' = [op |-> "equals", equals |-> equals(entries[1], entries[2]),
                       mask |-> {}]
    /\ UNCHANGED <<entries, inspectorVars, qdocVars, selectionVars>>

\* entries[1].compare(entries[2])
Compare ==
    /\ compareCall.op = ""
    /\ compareCall' = [op |-> "compare", equals |-> FALSE,
                       mask |-> compare(entries[1], entries[2])]
    /\ UNCHANGED <<entries, inspectorVars, qdocVars, selectionVars>>

CompareNext == Equals \/ Compare

CompareSpec == CompareInit /\ [][CompareNext]_vars

\* ------------------------------------------------------------ Selection
MaxSelected == 2

\* Selection::clear(): the Selection after it.
clear(s) == [s EXCEPT !.managed = <<>>, !.unmanaged = <<>>, !.objects = <<>>]

\* Selection::empty()
empty(s) == s.managed = <<>> /\ s.unmanaged = <<>> /\ s.objects = <<>>

\* for (QObject *o : list) rc.push_back(o)
RECURSIVE pushBackAll(_, _)
pushBackAll(rc, list) ==
    IF list = <<>> THEN rc ELSE pushBackAll(Append(rc, Head(list)), Tail(list))

\* Mutant: the managed widgets come first.
selectionManagedFirst(s) ==
    pushBackAll(pushBackAll(s.managed, s.objects), s.unmanaged)

\* Selection::selection()
selection(s) == pushBackAll(pushBackAll(s.objects, s.managed), s.unmanaged)

\* A Selection as the object inspector fills it: widgets the form manages,
\* widgets it does not, and objects that are no widgets.
SelectionInit ==
    /\ InspectorIdle /\ QDocIdle /\ CompareIdle
    /\ selected \in [managed : SeqsUpTo({"lw", "page"}, MaxSelected),
                      unmanaged : SeqsUpTo({"menu"}, MaxSelected),
                      objects : SeqsUpTo({"act", "bg"}, MaxSelected)]
    /\ selectionCall = NoSelectionCall

CallClear ==
    /\ selected' = clear(selected)
    /\ selectionCall' = [op |-> "clear", empty |-> FALSE, selection |-> <<>>]
    /\ UNCHANGED <<inspectorVars, qdocVars, compareVars>>

CallEmpty ==
    /\ selectionCall' = [op |-> "empty", empty |-> empty(selected), selection |-> <<>>]
    /\ UNCHANGED <<selected, inspectorVars, qdocVars, compareVars>>

CallSelection ==
    /\ selectionCall' = [op |-> "selection", empty |-> FALSE,
                         selection |-> selection(selected)]
    /\ UNCHANGED <<selected, inspectorVars, qdocVars, compareVars>>

SelectionNext == CallClear \/ CallEmpty \/ CallSelection

SelectionSpec == SelectionInit /\ [][SelectionNext]_vars

\* ================================================================ claims
\* What the claims speak of, stated on the host and on the stored state.

\* The last step was update(fw) with a main container present.
UpdatedWithRoot(call) ==
    call.op = "update" /\ call.fw # Null /\ host.mainContainer[call.fw] # Null

\* The last step was update with no form window or no main container.
UpdatedWithoutRoot(call) ==
    call.op = "update" /\ (call.fw = Null \/ host.mainContainer[call.fw] = Null)

\* The snapshot update(fw) builds in the current host state.
NewSnapshot(fw) == createModelRecursion(host, Null, host.mainContainer[fw])

\* Same length and the same (parent, object) pair at every position.
SameShape(n, p) ==
    /\ Len(n) = Len(p)
    /\ \A i \in 1..Len(n) : n[i].parent = p[i].parent /\ n[i].object = p[i].object

\* C1: when the new snapshot has the stored snapshot's length and (parent,
\* object) pairs, update returns Updated, creates, removes and moves no row,
\* and leaves the per-object index as it was.
C1_PatchKeepsRows ==
    [][ UpdatedWithRoot(lastCall')
        => \A n \in {NewSnapshot(lastCall'.fw)} :
             SameShape(n, m_model)
             => /\ lastCall'.ret = "Updated"
                /\ log'.created = <<>> /\ log'.removed = 0
                /\ DOMAIN rows' = DOMAIN rows
                /\ \A p \in DOMAIN rows : rows'[p].object = rows[p].object
                /\ m_objectIndexMultiMap' = m_objectIndexMultiMap ]_vars

\* An update that patched some row of a tree of several rows.
C1_Witness ==
    /\ UpdatedWithRoot(lastCall) /\ lastCall.ret = "Updated"
    /\ log.patched # <<>>
    /\ Cardinality(DOMAIN rows) > 1

\* C2: when the new snapshot differs from the stored one in length or in a
\* (parent, object) pair, update returns Rebuilt, every old row is removed,
\* one row is created per entry in snapshot order, the stored snapshot is the
\* new one, and the index holds one location per entry, each the row of its
\* object, and nothing else.
C2_RebuildExact ==
    [][ UpdatedWithRoot(lastCall')
        => \A n \in {NewSnapshot(lastCall'.fw)} :
             ~SameShape(n, m_model)
             => /\ lastCall'.ret = "Rebuilt"
                /\ ~log'.assertFailed
                /\ log'.removed = Cardinality(DOMAIN rows)
                /\ Len(log'.created) = Len(n)
                /\ DOMAIN rows' = {log'.created[i] : i \in 1..Len(n)}
                /\ Cardinality(DOMAIN rows') = Len(n)
                /\ \A i \in 1..Len(n) : rows'[log'.created[i]].object = n[i].object
                /\ m_model' = n
                /\ \A o \in Objs :
                     /\ Len(m_objectIndexMultiMap'[o])
                          = Cardinality({i \in 1..Len(n) : n[i].object = o})
                     /\ \A k \in 1..Len(m_objectIndexMultiMap'[o]) :
                          /\ m_objectIndexMultiMap'[o][k] \in DOMAIN rows'
                          /\ rows'[m_objectIndexMultiMap'[o][k]].object = o
                     /\ \A k, l \in 1..Len(m_objectIndexMultiMap'[o]) :
                          k # l => m_objectIndexMultiMap'[o][k] # m_objectIndexMultiMap'[o][l]
      ]_vars

\* A rebuild that replaced an existing tree, with an object at two positions.
C2_Witness ==
    /\ UpdatedWithRoot(lastCall) /\ lastCall.ret = "Rebuilt"
    /\ log.removed > 1
    /\ \E o \in Objs : Len(m_objectIndexMultiMap[o]) > 1

\* C3: after update with no form window or no main container there are no
\* rows, the index and the stored snapshot are empty, no form window is
\* current and the result is NoForm.
C3_NoFormClears ==
    UpdatedWithoutRoot(lastCall)
    => /\ lastCall.ret = "NoForm"
       /\ DOMAIN rows = {}
       /\ m_objectIndexMultiMap = EmptyIndexMap
       /\ m_model = <<>>
       /\ m_formWindow = Null

\* An update without root that removed the rows of a shown form.
C3_Witness ==
    /\ UpdatedWithoutRoot(lastCall)
    /\ log.removed > 1
    /\ lastCall.fw = "fw2"

\* C4: on the patch path every row of an object whose attributes changed has
\* setItemsDisplayData applied exactly once, with the object's change mask,
\* however many entries and index locations the object has.
C4_PatchedOnce ==
    [][ (UpdatedWithRoot(lastCall') /\ lastCall'.ret = "Updated")
        => \A n \in {NewSnapshot(lastCall'.fw)} :
             \A i \in 1..Len(m_model) :
               \A mask \in {compare(m_model[i], n[i])} :
                 mask # {}
                 => \A p \in DOMAIN rows :
                      rows[p].object = m_model[i].object
                      => LET calls == {k \in 1..Len(log'.patched) : log'.patched[k].index = p}
                         IN  /\ Cardinality(calls) = 1
                             /\ \A k \in calls : log'.patched[k].mask = mask
      ]_vars

\* A patch of an object that has two rows.
C4_Witness ==
    /\ UpdatedWithRoot(lastCall) /\ lastCall.ret = "Updated"
    /\ \E k, l \in 1..Len(log.patched) :
         /\ log.patched[k].object = log.patched[l].object
         /\ log.patched[k].index # log.patched[l].index

\* C5 (as claimed): a rename targets layoutName exactly when the entry of the
\* row's object is classified LayoutWidget, and objectName otherwise.
C5_RenameFollowsClassification ==
    (lastCall.op = "setData" /\ lastCall.ret = "true")
    => LET cmd == commandHistory[Len(commandHistory)]
           o == rows[lastCall.index].object
           layoutHolding == \E i \in 1..Len(m_model) :
                                m_model[i].object = o /\ m_model[i].type = "LayoutWidget"
       IN  /\ cmd.object = o
           /\ cmd.property = IF layoutHolding THEN "layoutName" ELSE "objectName"

\* C6: an update that follows an update of the same form with no change of
\* the host between them builds a snapshot of the same shape and returns
\* Updated.
C6_SecondUpdateIsUpdated ==
    [][ (UpdatedWithRoot(lastCall) /\ UpdatedWithRoot(lastCall'))
        => \A n \in {NewSnapshot(lastCall'.fw)} :
             /\ lastCall'.ret = "Updated"
             /\ SameShape(n, m_model)
             /\ SameShape(m_model', m_model) ]_vars

\* A second update on an unchanged form: nothing to rebuild, nothing to patch.
C6_Witness ==
    /\ UpdatedWithRoot(lastCall) /\ lastCall.ret = "Updated"
    /\ log.patched = <<>>
    /\ Len(m_model) > 1

\* C7: in the snapshot update built, the first entry is the root with no
\* parent, and the parent of every other entry is the object of an earlier
\* entry.
C7_ParentBeforeChild ==
    UpdatedWithRoot(lastCall)
    => /\ Len(m_model) >= 1
       /\ m_model[1].parent = Null
       /\ m_model[1].object = host.mainContainer[lastCall.fw]
       /\ \A i \in 2..Len(m_model) :
            \E j \in 1..(i - 1) : m_model[j].object = m_model[i].parent

\* A snapshot three levels deep.
C7_Witness ==
    /\ UpdatedWithRoot(lastCall)
    /\ \E i, j \in 2..Len(m_model) :
         /\ m_model[i].parent = m_model[1].object
         /\ m_model[j].parent = m_model[i].object

\* How often the snapshot holds an entry, and an entry of child c below o.
Occurrences(n, o) == Cardinality({i \in 1..Len(n) : n[i].object = o})
ChildEntryCount(n, o, c) ==
    Cardinality({i \in 1..Len(n) : n[i].parent = o /\ n[i].object = c})
TypeIn(n, o) == n[CHOOSE i \in 1..Len(n) : n[i].object = o].type

\* What the host says of c below o: a page of o's container extension, a
\* native child of o, and how many of o's actions with metadata stand for c.
PageCount(o, c) == Cardinality({i \in 1..Len(host.pages[o]) : host.pages[o][i] = c})
NativeChild(o, c) == \E i \in 1..Len(host.children[o]) : host.children[o][i] = c
ActionCount(o, c) ==
    IF isWidgetType(host, o)
    THEN Cardinality({i \in 1..Len(host.actions[o]) :
                         /\ host.actions[o][i] \in host.meta
                         /\ c = (IF host.menu[host.actions[o][i]] # Null
                                 THEN host.menu[host.actions[o][i]]
                                 ELSE host.actions[o][i])})
    ELSE 0
Bit(b) == IF b THEN 1 ELSE 0

\* C8 (as claimed): below an ExtensionContainer entry the entries built from
\* its structure are its pages and none comes from its native child list;
\* below any other entry they come from the native child list, none from
\* pages.
C8_PagesXorChildren ==
    UpdatedWithRoot(lastCall)
    => \A o \in Objs : Occurrences(m_model, o) > 0 =>
         \A c \in Objs :
           LET structural == ChildEntryCount(m_model, o, c)
                               - Occurrences(m_model, o) * ActionCount(o, c)
           IN  IF TypeIn(m_model, o) = "ExtensionContainer"
               THEN structural = Occurrences(m_model, o) * PageCount(o, c)
               ELSE /\ structural \in {0, Occurrences(m_model, o)}
                    /\ structural > 0 => NativeChild(o, c)

\* C8 (amended): the exclusion holds for widget children: below an
\* ExtensionContainer entry the widget entries built from its structure are its
\* pages, whatever its native widget children are; its entries of non-widget
\* children come from the native child list and are button groups; below any
\* other entry the structural entries come from the native child list, none
\* from pages.
C8_PagesXorWidgetChildren ==
    UpdatedWithRoot(lastCall)
    => \A o \in Objs : Occurrences(m_model, o) > 0 =>
         \A c \in Objs :
           LET structural == ChildEntryCount(m_model, o, c)
                               - Occurrences(m_model, o) * ActionCount(o, c)
           IN  IF TypeIn(m_model, o) = "ExtensionContainer" /\ isWidgetType(host, c)
               THEN structural = Occurrences(m_model, o) * PageCount(o, c)
               ELSE /\ structural \in {0, Occurrences(m_model, o)}
                    /\ structural > 0 => NativeChild(o, c)
                    /\ (structural > 0 /\ TypeIn(m_model, o) = "ExtensionContainer")
                         => isButtonGroup(host, c)

\* An extension container shown with a page, with a managed native widget
\* child that is no page, and with a button group from its child list.
C8_Witness ==
    /\ UpdatedWithRoot(lastCall)
    /\ \E o \in Objs : Occurrences(m_model, o) > 0 /\
         /\ TypeIn(m_model, o) = "ExtensionContainer"
         /\ \E c \in Objs : PageCount(o, c) = 1 /\ ChildEntryCount(m_model, o, c) = 1
         /\ \E c \in Objs : /\ NativeChild(o, c) /\ isWidgetType(host, c)
                            /\ c \in host.managed /\ PageCount(o, c) = 0
                            /\ ChildEntryCount(m_model, o, c) = 0
         /\ \E c \in Objs : /\ NativeChild(o, c) /\ isButtonGroup(host, c)
                            /\ ChildEntryCount(m_model, o, c) = 1

\* C9 (as claimed): of the native children of an entry that is no extension
\* container, exactly the managed widgets and the non-widget objects with a
\* metadata entry get an entry.
C9_ManagedOrMetadata ==
    UpdatedWithRoot(lastCall)
    => \A o \in Objs :
         (Occurrences(m_model, o) > 0 /\ TypeIn(m_model, o) # "ExtensionContainer") =>
           \A c \in Objs :
             ChildEntryCount(m_model, o, c)
               = Occurrences(m_model, o)
                   * (ActionCount(o, c)
                      + Bit(/\ NativeChild(o, c)
                            /\ IF isWidgetType(host, c) THEN c \in host.managed
                               ELSE c \in host.meta))

\* C9 (amended): of the native children of an entry, exactly these get an
\* entry: the managed widgets, when the entry is no extension container, and
\* the button groups with a metadata entry; other non-widget children get
\* none, with or without metadata.
C9_ManagedOrButtonGroup ==
    UpdatedWithRoot(lastCall)
    => \A o \in Objs : Occurrences(m_model, o) > 0 =>
         \A c \in Objs :
           ChildEntryCount(m_model, o, c)
             = Occurrences(m_model, o)
                 * (ActionCount(o, c)
                    + (IF TypeIn(m_model, o) = "ExtensionContainer"
                       THEN PageCount(o, c) ELSE 0)
                    + Bit(/\ NativeChild(o, c)
                          /\ IF isWidgetType(host, c)
                             THEN /\ c \in host.managed
                                  /\ TypeIn(m_model, o) # "ExtensionContainer"
                             ELSE c \in host.meta /\ isButtonGroup(host, c)))

\* Below one entry: a managed widget child and a button group with entries,
\* an unmanaged widget child and an action child with metadata without.
C9_Witness ==
    /\ UpdatedWithRoot(lastCall)
    /\ \E o \in Objs : Occurrences(m_model, o) > 0 /\
         /\ \E c \in Objs : /\ NativeChild(o, c) /\ isWidgetType(host, c)
                            /\ c \in host.managed /\ ChildEntryCount(m_model, o, c) = 1
         /\ \E c \in Objs : /\ NativeChild(o, c) /\ isButtonGroup(host, c)
                            /\ c \in host.meta /\ ChildEntryCount(m_model, o, c) = 1
         /\ \E c \in Objs : /\ NativeChild(o, c) /\ isWidgetType(host, c)
                            /\ c \notin host.managed /\ ChildEntryCount(m_model, o, c) = 0
         /\ \E c \in Objs : /\ NativeChild(o, c) /\ isAction(host, c)
                            /\ c \in host.meta /\ ChildEntryCount(m_model, o, c) = 0

\* C10: setData returns false and submits nothing when the role is not the
\* edit role, when no form window is current or when the index has no object;
\* otherwise it appends one set-property command for the row's object to the
\* current form window's history and returns true.  It changes neither rows,
\* index, stored snapshot nor current form window; the form window is current
\* from an update with a root until an update without one.
C10_RenameIsDelegated ==
    [][ /\ lastCall'.op = "setData"
          => LET refused == \/ lastCall'.role # "EditRole"
                            \/ m_formWindow = Null
                            \/ lastCall'.index \notin DOMAIN rows
             IN  /\ refused => lastCall'.ret = "false" /\ commandHistory' = commandHistory
                 /\ ~refused =>
                      /\ lastCall'.ret = "true"
                      /\ Len(commandHistory') = Len(commandHistory) + 1
                      /\ SubSeq(commandHistory', 1, Len(commandHistory)) = commandHistory
                      /\ LET cmd == commandHistory'[Len(commandHistory')]
                         IN  /\ cmd.object = rows[lastCall'.index].object
                             /\ cmd.value = lastCall'.value
                             /\ cmd.formWindow = m_formWindow
                             /\ cmd.property \in {"objectName", "layoutName"}
                 /\ rows' = rows
                 /\ m_objectIndexMultiMap' = m_objectIndexMultiMap
                 /\ m_model' = m_model
                 /\ m_formWindow' = m_formWindow
        /\ lastCall'.op = "update"
          => (m_formWindow' = Null <=> lastCall'.ret = "NoForm")
        /\ lastCall'.op # "setData" => commandHistory' = commandHistory
        /\ m_formWindow = Null => DOMAIN rows = {} ]_vars

\* A rename accepted on a row, after one refused for want of a form window.
C10_Witness ==
    /\ lastCall.op = "setData" /\ lastCall.ret = "true"
    /\ Len(commandHistory) = 1
    /\ m_formWindow # Null

\* What C11 speaks of, stated on the arguments and the file's bytes.
StartsWithAt(a) == Len(a) >= 1 /\ a[1] = "@"
LineStarts(c) == {b \in 1..Len(c) : b = 1 \/ c[b - 1] = "\n"}
LineAt(c, b) ==
    LET e == CHOOSE e \in b..(Len(c) + 1) :
                 /\ e = Len(c) + 1 \/ c[e] = "\n"
                 /\ \A k \in b..(e - 1) : c[k] # "\n"
    IN  SubSeq(c, b, e - 1)
Stripped(l) ==
    LET kept == {i \in 1..Len(l) : l[i] # " "}
    IN  IF kept = {} THEN <<>>
        ELSE SubSeq(l, CHOOSE i \in kept : \A j \in kept : i <= j,
                       CHOOSE i \in kept : \A j \in kept : i >= j)
NonEmptyLines(c) ==
    LET starts == {b \in LineStarts(c) : Stripped(LineAt(c, b)) # <<>>}
        nth(k) == CHOOSE b \in starts : Cardinality({t \in starts : t < b}) = k - 1
    IN  [k \in 1..Cardinality(starts) |-> Stripped(LineAt(c, nth(k)))]
Expansion(i) ==
    IF StartsWithAt(arguments[i]) THEN NonEmptyLines(files.content)
    ELSE <<arguments[i]>>
RECURSIVE Offset(_)
Offset(i) == IF i <= 1 THEN 0 ELSE Offset(i - 1) + Len(Expansion(i - 1))
MustAbort ==
    \E i \in 1..Len(arguments) :
        /\ StartsWithAt(arguments[i])
        /\ \/ Len(arguments[i]) = 1
           \/ ~files.present
           \/ SubSeq(arguments[i], 2, Len(arguments[i])) # OptionsFileName

\* C11: when process has run and some argument is a bare "@" or names a file
\* that cannot be opened, the run aborted and no list was produced; otherwise
\* the list parsed is the arguments in order, each argument not starting with
\* "@" as it is and each "@file" replaced, at its place, by the file's lines
\* with the white space at their ends stripped, the empty ones left out, in
\* file order; a line that starts with "@" stands as it is.
C11_ArgumentsExpanded ==
    parsed.status # "none"
    => IF MustAbort
       THEN parsed.status = "fatal" /\ parsed.allArguments = <<>>
       ELSE /\ parsed.status = "ok"
            /\ Len(parsed.allArguments) = Offset(Len(arguments) + 1)
            /\ \A i \in 1..Len(arguments) :
                 SubSeq(parsed.allArguments, Offset(i) + 1, Offset(i + 1))
                   = Expansion(i)

\* A list parsed from an "@file" argument followed by a plain one, the file
\* holding a line that starts with "@" and a line of white space.
C11_Witness ==
    /\ parsed.status = "ok"
    /\ Len(arguments) = 2
    /\ StartsWithAt(arguments[1]) /\ ~StartsWithAt(arguments[2])
    /\ Cardinality(LineStarts(files.content)) = 2
    /\ Len(parsed.allArguments) = 2
    /\ StartsWithAt(parsed.allArguments[1])
    /\ parsed.allArguments[2] = arguments[2]

\* The objects of the snapshot's entries whose parent is o, in snapshot order.
ChildEntries(n, o) ==
    LET below == SelectSeq(n, LAMBDA e : e.parent = o)
    IN  [k \in 1..Len(below) |-> below[k].object]

\* What the host says of o: its structural children (the pages of an
\* extension container, else the managed widgets of the child list), its
\* button groups with metadata, its actions with metadata.
StructuralChildren(o) ==
    IF TypeIn(m_model, o) = "ExtensionContainer" THEN host.pages[o]
    ELSE SelectSeq(host.children[o], LAMBDA c : isWidgetType(host, c) /\ c \in host.managed)
GroupingObjects(o) ==
    SelectSeq(host.children[o], LAMBDA c : isButtonGroup(host, c) /\ c \in host.meta)
AttachedActions(o) ==
    IF isWidgetType(host, o)
    THEN SelectSeq(host.actions[o], LAMBDA a : a \in host.meta)
    ELSE <<>>
RECURSIVE Repeat(_, _)
Repeat(seq, k) == IF k = 0 THEN <<>> ELSE seq \o Repeat(seq, k - 1)

\* C12: in the snapshot update built, the entries below each occurrence of an
\* object are, in this order: its structural children in list order, its
\* button groups with metadata, and one entry per attached action with
\* metadata in action-list order, whose object is the action's menu when it
\* has one and the action otherwise; the menu's own entries follow below the
\* menu by the same rule.
C12_ChildOrder ==
    UpdatedWithRoot(lastCall)
    => \A o \in Objs : Occurrences(m_model, o) > 0 =>
         LET acts == AttachedActions(o)
             shown == [k \in 1..Len(acts) |->
                          IF host.menu[acts[k]] # Null THEN host.menu[acts[k]]
                          ELSE acts[k]]
         IN  ChildEntries(m_model, o)
               = Repeat(StructuralChildren(o) \o GroupingObjects(o) \o shown,
                        Occurrences(m_model, o))

\* A parent whose child list has a button group before a managed widget, and
\* a parent with an action that has a menu, before one that has none, the
\* menu with an entry of its own below it.
C12_Witness ==
    /\ UpdatedWithRoot(lastCall)
    /\ \E o \in Objs : Occurrences(m_model, o) > 0 /\
         \E i, j \in 1..Len(host.children[o]) :
            /\ i < j
            /\ isButtonGroup(host, host.children[o][i])
            /\ host.children[o][i] \in host.meta
            /\ isWidgetType(host, host.children[o][j])
            /\ host.children[o][j] \in host.managed
            /\ TypeIn(m_model, o) # "ExtensionContainer"
    /\ \E o \in Objs : Occurrences(m_model, o) > 0 /\
         /\ Len(AttachedActions(o)) = 2
         /\ host.menu[AttachedActions(o)[1]] # Null
         /\ host.menu[AttachedActions(o)[2]] = Null
         /\ ChildEntries(m_model, host.menu[AttachedActions(o)[1]]) # <<>>

\* The cells of a row, and the cells a call of update wrote in the row at p.
Cells == {"nameText", "nameIcon", "classText", "classToolTip", "classIcon"}
WrittenAt(lg, p) ==
    UNION {lg.patched[k].written :
             k \in {l \in 1..Len(lg.patched) : lg.patched[l].index = p}}

\* C13: on the patch path the name text of a row is written exactly when the
\* instance name of its object changed, the class text and tooltip exactly
\* when the class label changed, the two icons only when the icon, the type
\* tag or the layout kind changed; so a row whose object has mask zero is not
\* written, a row whose object changed only in name has only its name text
\* written, one whose object changed only in class label only its class
\* text and tooltip; every cell not written keeps its value.
C13_OnlyChangedColumnsWritten ==
    [][ (UpdatedWithRoot(lastCall') /\ lastCall'.ret = "Updated")
        => \A n \in {NewSnapshot(lastCall'.fw)} :
             \A i \in 1..Len(m_model) : \A p \in DOMAIN rows :
               rows[p].object = m_model[i].object
               => LET mask == compare(m_model[i], n[i])
                      w == WrittenAt(log', p)
                  IN  /\ mask = {} => w = {}
                      /\ mask = {"ObjectNameChanged"} => w = {"nameText"}
                      /\ mask = {"ClassNameChanged"} => w = {"classText", "classToolTip"}
                      /\ "nameText" \in w <=> "ObjectNameChanged" \in mask
                      /\ "classText" \in w <=> "ClassNameChanged" \in mask
                      /\ "classToolTip" \in w <=> "ClassNameChanged" \in mask
                      /\ w \cap {"nameIcon", "classIcon"} # {}
                           => mask \cap {"ClassIconChanged", "TypeChanged",
                                         "LayoutTypeChanged"} # {}
                      /\ \A c \in Cells \ w : rows'[p][c] = rows[p][c]
                      /\ rows'[p].object = rows[p].object
                      /\ rows'[p].nameEditable = rows[p].nameEditable ]_vars

\* A patch with a row changed in name only, a row changed in class label
\* only and a row left alone.
C13_Witness ==
    /\ UpdatedWithRoot(lastCall) /\ lastCall.ret = "Updated"
    /\ \E k, l \in 1..Len(log.patched) :
         /\ log.patched[k].mask = {"ObjectNameChanged"}
         /\ log.patched[k].written = {"nameText"}
         /\ log.patched[l].mask = {"ClassNameChanged"}
         /\ log.patched[l].written = {"classText", "classToolTip"}
    /\ \E p \in DOMAIN rows : WrittenAt(log, p) = {}

\* Two icons differ: one is null and the other not, or neither is null and
\* their cache keys differ.
IconsDiffer(i1, i2) == i1.null # i2.null \/ (~i1.null /\ i1.key # i2.key)

\* C14: equals holds exactly when parent and object are the same, whatever
\* the attributes are; the mask compare returns has the flag of each of the
\* five attributes exactly when that attribute differs, so it is empty
\* exactly when all five are equal, and it is the mask of the comparison the
\* other way round.
C14_EqualsAndCompare ==
    LET a == entries[1]
        b == entries[2]
    IN  /\ compareCall.op = "equals"
          => (compareCall.equals <=> (a.parent = b.parent /\ a.object = b.object))
        /\ compareCall.op = "compare"
          => /\ "ClassNameChanged" \in compareCall.mask <=> a.className # b.className
             /\ "ObjectNameChanged" \in compareCall.mask <=> a.objectName # b.objectName
             /\ "ClassIconChanged" \in compareCall.mask
                  <=> IconsDiffer(a.classIcon, b.classIcon)
             /\ "TypeChanged" \in compareCall.mask <=> a.type # b.type
             /\ "LayoutTypeChanged" \in compareCall.mask
                  <=> a.managedLayoutType # b.managedLayoutType
             /\ compareCall.mask \subseteq AllChanged
             /\ compareCall.mask = {}
                  <=> /\ a.className = b.className /\ a.objectName = b.objectName
                      /\ ~IconsDiffer(a.classIcon, b.classIcon)
                      /\ a.type = b.type
                      /\ a.managedLayoutType = b.managedLayoutType
             /\ compareCall.mask = compare(b, a)

\* compare on two entries of one parent and object that differ in icon (both
\* set) and in type tag, and in nothing else.
C14_Witness ==
    /\ compareCall.op = "compare"
    /\ compareCall.mask = {"ClassIconChanged", "TypeChanged"}
    /\ entries[1].parent = entries[2].parent /\ entries[1].object = entries[2].object
    /\ ~entries[1].classIcon.null /\ ~entries[2].classIcon.null

\* The row shows the entry: its name, its class label as text and tooltip,
\* and the icons that go with its type tag, layout kind and class icon.
Shows(row, e) ==
    /\ row.object = e.object
    /\ row.nameText = e.objectName
    /\ row.classText = e.className
    /\ row.classToolTip = e.className
    /\ row.nameIcon = (IF e.type \in {"LayoutWidget", "LayoutableContainer"}
                       THEN layoutIcons(e.managedLayoutType) ELSE NullIcon)
    /\ row.classIcon = (IF e.type = "LayoutWidget"
                        THEN layoutIcons(e.managedLayoutType) ELSE e.classIcon)

\* C15: at all times there are as many rows as stored entries, and every row
\* shows every stored entry of its object, of which there is at least one;
\* after an update with a root, rebuild or patch, the stored snapshot is,
\* attribute by attribute, the snapshot of the host as it is then.
C15_RowsInSync ==
    /\ Cardinality(DOMAIN rows) = Len(m_model)
    /\ \A p \in DOMAIN rows :
         /\ \E i \in 1..Len(m_model) : m_model[i].object = rows[p].object
         /\ \A i \in 1..Len(m_model) :
              m_model[i].object = rows[p].object => Shows(rows[p], m_model[i])
    /\ UpdatedWithRoot(lastCall) => m_model = NewSnapshot(lastCall.fw)

\* After a patch: an object with two rows, both showing its new name.
C15_Witness ==
    /\ UpdatedWithRoot(lastCall) /\ lastCall.ret = "Updated"
    /\ \E p, q \in DOMAIN rows :
         /\ p # q /\ rows[p].object = rows[q].object
         /\ "nameText" \in WrittenAt(log, p) /\ "nameText" \in WrittenAt(log, q)
         /\ rows[p].nameText = "b" /\ rows[q].nameText = "b"

\* The depth-first walk of the host from object, which stands at path: the
\* objects met, each with the path of child numbers that leads to it.
RECURSIVE Walk(_, _, _)
RECURSIVE WalkOver(_, _, _, _)
WalkOver(object, objs, path, k) ==
    IF k > Len(objs) THEN <<>>
    ELSE Walk(object, objs[k], Append(path, k - 1)) \o WalkOver(object, objs, path, k + 1)
Walk(parent, object, path) ==
    <<[object |-> object, path |-> path]>>
        \o WalkOver(object, childObjects(host, ObjectData(host, parent, object)), path, 1)

\* The position of the nearest entry before i whose object is i's parent, or 0.
NearestParent(n, i) ==
    LET before == {j \in 1..(i - 1) : n[j].object = n[i].parent}
    IN  IF before = {} THEN 0 ELSE CHOOSE j \in before : \A l \in before : l <= j

\* C16: in a rebuild the parent lookup never fails: every entry after the
\* first has an earlier entry for its parent; its row is appended as the last
\* child of the row of the nearest such entry; and after any update with a
\* root the rows are the depth-first walk of the host: one row per object
\* met, at the path by which the walk reached it.
C16_RowsFollowWalk ==
    UpdatedWithRoot(lastCall)
    => /\ ~log.assertFailed
       /\ \A walk \in {Walk(Null, host.mainContainer[lastCall.fw], <<0>>)} :
            /\ Len(walk) = Len(m_model)
            /\ DOMAIN rows = {walk[i].path : i \in 1..Len(walk)}
            /\ \A i \in 1..Len(walk) :
                 /\ m_model[i].object = walk[i].object
                 /\ rows[walk[i].path].object = walk[i].object
            /\ lastCall.ret = "Rebuilt"
                 => /\ Len(log.created) = Len(m_model)
                    /\ \A i \in 1..Len(m_model) : log.created[i] = walk[i].path
                    /\ \A i \in 2..Len(m_model) :
                         LET j == NearestParent(m_model, i)
                             siblings == {l \in 2..(i - 1) :
                                            NearestParent(m_model, l) = j}
                         IN  /\ j > 0
                             /\ log.created[i]
                                  = Append(log.created[j], Cardinality(siblings))

\* A rebuild with an object at two places, each of its rows with a row of
\* its own below it.
C16_Witness ==
    /\ UpdatedWithRoot(lastCall) /\ lastCall.ret = "Rebuilt"
    /\ \E o \in Objs :
         /\ Len(m_objectIndexMultiMap[o]) = 2
         /\ \A k \in 1..2 : Append(m_objectIndexMultiMap[o][k], 0) \in DOMAIN rows

\* C17: an update call returns NoForm without a root, else Updated when the
\* new snapshot has the stored snapshot's shape, else Rebuilt, whatever the
\* calls before it were; when no call with a root came before it, or the
\* last call returned NoForm, the stored snapshot is empty and a call with
\* a root returns Rebuilt and stores at least one entry, also on a host that
\* never changed; a call returns Updated only when the call before it left a
\* snapshot of one entry or more, of the new snapshot's shape.
C17_ResultFromSnapshots ==
    [][ lastCall'.op = "update"
        => LET shown == results # <<>> /\ results[Len(results)] # "NoForm"
           IN  /\ results' = Append(results, lastCall'.ret)
               /\ ~shown => m_model = <<>>
               /\ UpdatedWithoutRoot(lastCall') => lastCall'.ret = "NoForm"
               /\ UpdatedWithRoot(lastCall')
                    => \A n \in {NewSnapshot(lastCall'.fw)} :
                         /\ Len(n) >= 1
                         /\ lastCall'.ret
                              = (IF SameShape(n, m_model) THEN "Updated" ELSE "Rebuilt")
                         /\ ~shown => lastCall'.ret = "Rebuilt" /\ Len(m_model') >= 1
                         /\ lastCall'.ret = "Updated" => shown /\ m_model # <<>> ]_vars

\* The form is shown, closed and shown again, the host never changed: the
\* second showing rebuilt.
C17_Witness ==
    /\ results = <<"Rebuilt", "NoForm", "Rebuilt">>
    /\ steps = 0
    /\ Len(m_model) > 1

\* C18: selection() returns the objects, then the managed widgets, then the
\* unmanaged ones, each list in its order, as many elements as the three
\* lists have together; empty() returns true exactly when that list is
\* empty; neither changes the three lists; clear() empties the three lists,
\* so that empty() then returns true and selection() the empty list.
C18_SelectionConcatenates ==
    [][ LET no == Len(selected.objects)
            nm == Len(selected.managed)
            nu == Len(selected.unmanaged)
            rc == selectionCall'.selection
        IN  /\ selectionCall'.op = "selection"
              => /\ Len(rc) = no + nm + nu
                 /\ \A k \in 1..no : rc[k] = selected.objects[k]
                 /\ \A k \in 1..nm : rc[no + k] = selected.managed[k]
                 /\ \A k \in 1..nu : rc[no + nm + k] = selected.unmanaged[k]
                 /\ selected' = selected
            /\ selectionCall'.op = "empty"
              => /\ selectionCall'.empty <=> no + nm + nu = 0
                 /\ selected' = selected
            /\ selectionCall'.op = "clear"
              => /\ Len(selected'.objects) = 0
                 /\ Len(selected'.managed) = 0
                 /\ Len(selected'.unmanaged) = 0
            /\ (selectionCall.op = "clear" /\ selectionCall'.op = "empty")
              => selectionCall'.empty
            /\ (selectionCall.op = "clear" /\ selectionCall'.op = "selection")
              => rc = <<>> ]_vars

\* selection() on a Selection with objects, managed and unmanaged widgets.
C18_Witness ==
    /\ selectionCall.op = "selection"
    /\ Len(selected.objects) = 2 /\ Len(selected.managed) = 2
    /\ Len(selected.unmanaged) = 1
    /\ Len(selectionCall.selection) = 5
    /\ selected.objects[1] # selected.objects[2]

====
